---- MODULE Spec2Model ----
(***************************************************************************)
(* Portfolio ledger and position lifecycle of the trading bot:             *)
(* agents/utils/portfolio.py (PortfolioManager) and its callers in         *)
(* agents/application/dry_run_trader.py and paper_trader.py.               *)
(*                                                                         *)
(* Python floats are modelled as exact rationals <<n, d>> (d > 0, lowest   *)
(* terms), so every equality below is an equality of real numbers.         *)
(***************************************************************************)
EXTENDS Integers, Sequences, FiniteSets, TLC

VARIABLES
    now,        \* wall clock (datetime.now()), in sub-second ticks
    config,     \* trading_config: the values read from the environment
    file,       \* [Paths -> persisted JSON document]
    pm,         \* [Insts -> in-memory PortfolioManager]
    pc,         \* [Insts -> position of the instance inside save()]
    stats,      \* [Insts -> daily_stats of the trader owning the instance]
    calls,      \* number of ledger calls made so far (bounds the run)
    hist,       \* history: per instance, what its ledger calls saw and returned
    io          \* history: per instance, what its loads and saves did to the document

vars == <<now, config, file, pm, pc, stats, calls, hist, io>>

-----------------------------------------------------------------------------
(* Bounds of the model *)

\* ledger calls in one run
MaxCalls == 4
\* clock ticks per wall-clock second (resolution of opened_at vs. of the id)
TicksPerSec == 3
\* seconds the clock may be advanced by sleeping
MaxSec == 1

-----------------------------------------------------------------------------
(* Exact arithmetic standing for Python float arithmetic *)

RECURSIVE GCD(_, _)
GCD(a, b) == IF b = 0 THEN a ELSE GCD(b, a % b)

Abs(n) == IF n < 0 THEN -n ELSE n

Norm(n, d) ==
    LET g == GCD(Abs(n), d)
    IN  IF n = 0 THEN <<0, 1>> ELSE <<n \div g, d \div g>>

LCM(a, b) == (a \div GCD(a, b)) * b

Rat(n, d) == Norm(n, d)
Zero == <<0, 1>>
One == <<1, 1>>

RAdd(x, y) ==
    LET l == LCM(x[2], y[2])
    IN  Norm(x[1] * (l \div x[2]) + y[1] * (l \div y[2]), l)

RNeg(x) == <<-x[1], x[2]>>
RSub(x, y) == RAdd(x, RNeg(y))

RMul(x, y) ==
    LET a == Norm(x[1], y[2])
        b == Norm(y[1], x[2])
    IN  IF x[1] = 0 \/ y[1] = 0 THEN Zero ELSE <<a[1] * b[1], a[2] * b[2]>>

RLe(x, y) ==
    LET l == LCM(x[2], y[2])
    IN  x[1] * (l \div x[2]) <= y[1] * (l \div y[2])

RLt(x, y) == RLe(x, y) /\ x # y
RMin(x, y) == IF RLe(x, y) THEN x ELSE y
RMax(x, y) == IF RLe(x, y) THEN y ELSE x

RECURSIVE SumSeq(_)
SumSeq(s) == IF s = <<>> THEN Zero ELSE RAdd(Head(s), SumSeq(Tail(s)))

-----------------------------------------------------------------------------
(* The instances and their documents *)

\* "dry": DryRunTrader.portfolio; "other": a second process on the same default
\* path (server, Telegram poller, another trader run); "paper": PaperTrader.portfolio
Insts == {"dry", "other", "paper"}
Paths == {"portfolio.json", "paper_portfolio.json"}

StoragePath(i) == IF i = "paper" THEN "paper_portfolio.json" ELSE "portfolio.json"

AbsentDoc ==
    [kind |-> "absent", current_balance |-> Zero, positions |-> <<>>, last_updated |-> 0]

\* save(): the document json.dump writes from the in-memory state
SavedDoc(m, t) ==
    [kind |-> "valid", current_balance |-> m.current_balance,
     positions |-> m.positions, last_updated |-> t]

\* an instance that does not exist (process not started)
NoInstance == [alive |-> FALSE, current_balance |-> Zero, positions |-> <<>>, loaded |-> FALSE]

\* __init__ up to the call of load()
Fresh(initial_balance) ==
    [alive |-> TRUE, current_balance |-> initial_balance, positions |-> <<>>, loaded |-> FALSE]

-----------------------------------------------------------------------------
(* apply_trade *)

Sides == {"BUY", "SELL", "UNKNOWN"}

\* strftime('%Y%m%d_%H%M%S'): the clock cut to whole seconds
PosId(t) == t \div TicksPerSec

\* the early returns of apply_trade: nothing is opened
\* a test of the size alone
OpensAnySide(trade) == RLt(Zero, trade.size)

Opens(trade) == RLt(Zero, trade.size) /\ trade.side \in {"BUY", "SELL"}

\* a notional of the whole size fraction, however large
NotionalUnclamped(m, trade) == RMul(trade.size, m.current_balance)

\* notional = max(0.0, min(1.0, size_fraction)) * self.current_balance
Notional(m, trade) == RMul(RMax(Zero, RMin(One, trade.size)), m.current_balance)

NewPosition(m, trade, t) ==
    [id |-> PosId(t), side |-> trade.side, entry_price |-> trade.price,
     size_fraction |-> trade.size, notional |-> Notional(m, trade), opened_at |-> t]

\* balance after the debit of either branch (BUY or SELL)
Debited(m, trade) == RSub(m.current_balance, Notional(m, trade))

\* the in-memory state after apply_trade, before save()
Applied(m, trade, t) ==
    IF Opens(trade)
    THEN [m EXCEPT !.current_balance = Debited(m, trade),
                   !.positions = Append(m.positions, NewPosition(m, trade, t))]
    ELSE m

-----------------------------------------------------------------------------
(* close_position *)

\* for idx, pos in enumerate(self.positions): if pos.get("id") == position_id
Matches(m, id) == {k \in 1..Len(m.positions) : m.positions[k].id = id}
FirstMatch(m, id) == CHOOSE k \in Matches(m, id) : \A j \in Matches(m, id) : k <= j

Change(side, entry, price) ==
    IF side = "BUY" THEN RSub(price, entry)
    ELSE RSub(RSub(One, price), RSub(One, entry))

\* pnl on the fraction instead of on the notional
RealizedOnFraction(pos, exit_price) ==
    RMul(pos.size_fraction, Change(pos.side, pos.entry_price, exit_price))

Realized(pos, exit_price) == RMul(pos.notional, Change(pos.side, pos.entry_price, exit_price))

\* a close that credits the PnL but does not return the notional
CreditedPnlOnly(m, pos, exit_price) == RAdd(m.current_balance, Realized(pos, exit_price))

\* self.current_balance += notional + realized
Credited(m, pos, exit_price) ==
    RAdd(m.current_balance, RAdd(pos.notional, Realized(pos, exit_price)))

RemoveUpTo(s, k) == SubSeq(s, k + 1, Len(s))

\* del self.positions[idx]
Remove(s, k) == SubSeq(s, 1, k - 1) \o SubSeq(s, k + 1, Len(s))

NoResult ==
    [found |-> FALSE, position_id |-> 0, exit_price |-> Zero,
     realized_pnl |-> Zero, notional |-> Zero]

CloseResult(m, id, exit_price) ==
    IF Matches(m, id) = {} THEN NoResult
    ELSE LET pos == m.positions[FirstMatch(m, id)]
         IN  [found |-> TRUE, position_id |-> id, exit_price |-> exit_price,
              realized_pnl |-> Realized(pos, exit_price), notional |-> pos.notional]

Closed(m, id, exit_price) ==
    IF Matches(m, id) = {} THEN m
    ELSE LET k == FirstMatch(m, id)
         IN  [m EXCEPT !.current_balance = Credited(m, m.positions[k], exit_price),
                       !.positions = Remove(m.positions, k)]

-----------------------------------------------------------------------------
(* load, as __init__ calls it *)

\* json.load raises: the file is empty, holds a cut-off document, or holds a
\* document followed by the tail of a longer one
Unparseable(doc) == doc.kind \in {"empty", "partial", "garbled"}

\* a load that takes the positions of the document and keeps the balance of
\* the constructor
LoadedKeepsBalance(m, doc) ==
    CASE doc.kind = "valid" -> [m EXCEPT !.positions = doc.positions, !.loaded = TRUE]
      [] OTHER -> m

\* the in-memory state when load() returns or enters its except branch:
\* current_balance is assigned before list(data.get("positions")) is evaluated
Loaded(m, doc) ==
    CASE doc.kind = "valid" ->
            [m EXCEPT !.current_balance = doc.current_balance,
                      !.positions = doc.positions, !.loaded = TRUE]
      [] doc.kind = "badpos" -> [m EXCEPT !.current_balance = doc.current_balance]
      [] OTHER -> m

\* the except branch of load(): self.save()
LoadSaves(doc) == Unparseable(doc) \/ doc.kind = "badpos"

-----------------------------------------------------------------------------
(* Inputs *)

\* PortfolioManager(initial_balance=100.0); DRY_RUN_BALANCE=10000 cents
DefaultBalance == 100
Prices == {Rat(2, 5), Rat(3, 5)}
Sizes == {Zero, Rat(1, 5), Rat(5, 1)}
\* trades enter at one price; an exit at the other price is a gain for BUY and
\* a loss for SELL
EntryPrices == {Rat(2, 5)}
Trades == [side : Sides, price : config.entries, size : Sizes]

\* ids a caller may pass to close_position: every id the clock can have issued
IssuedIds == 0..PosId(now)

-----------------------------------------------------------------------------
(* History of the calls made on one instance *)

NoPosition ==
    [id |-> -1, side |-> "NONE", entry_price |-> Zero, size_fraction |-> Zero,
     notional |-> Zero, opened_at |-> -1]

NoTrade == [side |-> "NONE", price |-> Zero, size |-> Zero]

\* current_price=None
NoPrice == <<0, 0>>

\* mark_to_market's summary before any was asked for
NoSummary == [positions |-> 0, unrealized_pnl |-> Zero, balance |-> Zero]

NoHistory(initial, m, doc) ==
    [initial |-> initial, realized |-> Zero, closed_ids |-> {},
     op |-> "none", id |-> 0, ret |-> NoResult, via |-> "none",
     pre |-> m, pre_doc |-> doc,
     prev_op |-> "none", prev_id |-> 0,
     opened |-> NoPosition, opened_balance |-> Zero, asked |-> Zero,
     arg |-> NoTrade, fill |-> One, pnl |-> Zero, tick |-> <<>>, mtm |-> NoSummary,
     quoted |-> NoPrice, notional |-> Zero, exec_notional |-> Zero, limit |-> "none"]

\* h after apply_trade(trade) was called on m at time t
HApply(h, m, doc, trade, t, via) ==
    [h EXCEPT !.op = "apply_trade", !.id = PosId(t), !.ret = NoResult, !.via = via,
              !.pre = m, !.pre_doc = doc, !.arg = [side |-> trade.side, price |-> trade.price,
                                                   size |-> trade.size],
              !.prev_op = h.op, !.prev_id = h.id,
              !.opened = IF Opens(trade) THEN NewPosition(m, trade, t) ELSE NoPosition,
              !.opened_balance = m.current_balance]

\* h after a trader took an intent of size_fraction `size` from its advisor
HIntent(h, size) == [h EXCEPT !.asked = size]

\* h after _execute_trade(trade) returned its zero-effect result on m
HReject(h, m, doc, trade) ==
    [h EXCEPT !.op = "_execute_trade", !.id = 0, !.ret = NoResult, !.via = "PaperTrader",
              !.pre = m, !.pre_doc = doc, !.prev_op = h.op, !.prev_id = h.id,
              !.arg = [side |-> trade.side, price |-> trade.price, size |-> trade.size],
              !.opened = NoPosition, !.pnl = Zero]

\* h after _execute_trade returned a result reporting pnl
HPnl(h, pnl) == [h EXCEPT !.pnl = pnl]

\* h after pre_trade_logic asked should_stop_trading and got verdict
HLimit(h, verdict) == [h EXCEPT !.limit = verdict]

\* h after _execute_trade read the quoted price of the trade
HQuoted(h, base_price) == [h EXCEPT !.quoted = base_price]

\* h after the execution model drew fill_fraction
HFill(h, fill_fraction) == [h EXCEPT !.fill = fill_fraction]

\* h after the execution model computed exec_notional from the trade's notional
HExec(h, notional, exec_notional) ==
    [h EXCEPT !.notional = notional, !.exec_notional = exec_notional]

\* h after close_position(id, exit_price) was called on m
HClose(h, m, doc, id, exit_price, via) ==
    LET ret == CloseResult(m, id, exit_price)
    IN  [h EXCEPT !.op = "close_position", !.id = id, !.ret = ret, !.via = via,
                  !.pre = m, !.pre_doc = doc,
                  !.prev_op = h.op, !.prev_id = h.id,
                  !.realized = RAdd(@, ret.realized_pnl),
                  !.closed_ids = IF ret.found THEN @ \cup {id} ELSE @]

-----------------------------------------------------------------------------
(* The ledger API called on one instance, each call running to completion *)

Idle(i) == pm[i].alive /\ pc[i] = "idle"

\* the document after a call that saves if `saves`
Persisted(doc, m, t, saves) == IF saves THEN SavedDoc(m, t) ELSE doc

\* apply_trade(trade): returns early, or debits, appends and saves
ApplyTrade == \E trade \in Trades :
    LET i == "dry"
        p == StoragePath(i)
    IN  /\ Idle(i) /\ calls < MaxCalls
        /\ pm' = [pm EXCEPT ![i] = Applied(pm[i], trade, now)]
        /\ file' = [file EXCEPT ![p] = Persisted(@, pm'[i], now, Opens(trade))]
        /\ now' = IF Opens(trade) THEN now + 1 ELSE now
        /\ hist' = [hist EXCEPT ![i] = HApply(@, pm[i], file[p], trade, now, "api")]
        /\ calls' = calls + 1
        /\ UNCHANGED <<config, pc, stats, io>>

\* close_position(position_id, exit_price): credits, deletes and saves, or returns None
ClosePosition == \E id \in IssuedIds, exit_price \in config.quotes :
    LET i == "dry"
        p == StoragePath(i)
    IN  /\ Idle(i) /\ calls < MaxCalls
        /\ pm' = [pm EXCEPT ![i] = Closed(pm[i], id, exit_price)]
        /\ file' = [file EXCEPT ![p] = Persisted(@, pm'[i], now, Matches(pm[i], id) # {})]
        /\ hist' = [hist EXCEPT ![i] = HClose(@, pm[i], file[p], id, exit_price, "api")]
        /\ calls' = calls + 1
        /\ UNCHANGED <<now, config, pc, stats, io>>

\* unrealized += notional * change, over the positions
Unrealized(m, current_price) ==
    SumSeq([k \in 1..Len(m.positions) |->
               RMul(m.positions[k].notional,
                    Change(m.positions[k].side, m.positions[k].entry_price, current_price))])

\* a summary that counts only the positions it priced
SummaryOfPriced(m, current_price) ==
    IF current_price = NoPrice \/ m.positions = <<>>
    THEN [positions |-> 0, unrealized_pnl |-> Zero, balance |-> m.current_balance]
    ELSE [positions |-> Len(m.positions), unrealized_pnl |-> Unrealized(m, current_price),
          balance |-> m.current_balance]

\* the summary mark_to_market returns
Summary(m, current_price) ==
    IF current_price = NoPrice \/ m.positions = <<>>
    THEN [positions |-> Len(m.positions), unrealized_pnl |-> Zero,
          balance |-> m.current_balance]
    ELSE [positions |-> Len(m.positions), unrealized_pnl |-> Unrealized(m, current_price),
          balance |-> m.current_balance]

\* h after mark_to_market(current_price) was called on m
HMark(h, m, doc, current_price) ==
    [h EXCEPT !.op = "mark_to_market", !.id = 0, !.ret = NoResult, !.via = "api",
              !.pre = m, !.pre_doc = doc, !.prev_op = h.op, !.prev_id = h.id,
              !.mtm = Summary(m, current_price)]

\* mark_to_market(current_price): builds the summary; assigns nothing, saves nothing
MarkToMarket == \E current_price \in Prices \cup {NoPrice} :
    LET i == "dry"
        p == StoragePath(i)
    IN  /\ Idle(i) /\ calls < MaxCalls
        /\ hist' = [hist EXCEPT ![i] = HMark(@, pm[i], file[p], current_price)]
        /\ calls' = calls + 1
        /\ UNCHANGED <<now, config, file, pm, pc, stats, io>>

\* time.sleep(pause_secs): the clock reaches the next whole second
Sleep ==
    /\ PosId(now) < MaxSec
    /\ now' = (PosId(now) + 1) * TicksPerSec
    /\ UNCHANGED <<config, file, pm, pc, stats, calls, hist, io>>

-----------------------------------------------------------------------------
(* One PortfolioManager, constructed on a path that holds no document *)

\* self.min_fill = max(0.1, min(float(min_fill), 1.0))
MinFill(min_fill) == RMax(Rat(1, 10), RMin(min_fill, One))

\* a max_fill that is only capped at 1
MaxFillCapped(min_fill, max_fill) == RMin(max_fill, One)

\* self.max_fill = max(self.min_fill, min(float(max_fill), 1.0)), on the normalised min_fill
MaxFill(min_fill, max_fill) == RMax(min_fill, RMin(max_fill, One))

NoStats == [total_trades |-> 0, total_pnl |-> Zero]

\* MAX_POSITION_SIZE=0.1; TAKE_PROFIT_PERCENTAGE=0.15; STOP_LOSS_PERCENTAGE=0.05;
\* quotes: the prices the advisor's recommendations can carry in this run;
\* PaperTrader(commission_bps=10.0, slippage_bps=20.0,
\* min_fill=0.6, max_fill=1.0)
DefaultConfig ==
    [initial_balance |-> Rat(DefaultBalance, 1), max_position_size |-> Rat(1, 10),
     commission_bps |-> Rat(10, 1), slippage_bps |-> Rat(20, 1),
     min_fill |-> Rat(3, 5), max_fill |-> One,
     take_profit |-> Rat(3, 20), stop_loss |-> Rat(1, 20), quotes |-> Prices,
     entries |-> EntryPrices,
     max_daily_trades |-> 10, max_daily_loss |-> Rat(1, 10)]

\* what has been observed of an instance's file accesses before it made any
NoIo ==
    [raised |-> FALSE, crashed |-> FALSE, crash_pre |-> AbsentDoc, crash_post |-> AbsentDoc,
     loaded_doc |-> AbsentDoc, opened_all |-> {}, closed_all |-> {}, delta |-> Zero,
     mutations |-> 0, closed_persisted |-> {}]

InitEnv ==
    /\ now = 0
    /\ pc = [i \in Insts |-> "idle"]
    /\ stats = [i \in Insts |-> NoStats]
    /\ calls = 0
    /\ io = [i \in Insts |-> NoIo]

\* PortfolioManager(initial_balance): __init__, then load()
Constructed(initial_balance, doc) == Loaded(Fresh(initial_balance), doc)

Init ==
    /\ InitEnv
    /\ config = DefaultConfig
    /\ file = [p \in Paths |-> AbsentDoc]
    /\ pm = [i \in Insts |->
               IF i = "dry" THEN Constructed(config.initial_balance, AbsentDoc)
               ELSE NoInstance]
    /\ hist = [i \in Insts |-> NoHistory(config.initial_balance, pm[i], AbsentDoc)]

Next == ApplyTrade \/ ClosePosition \/ MarkToMarket \/ Sleep

Spec == Init /\ [][Next]_vars

-----------------------------------------------------------------------------
(* round(x, 6) *)

RECURSIVE Pow10(_)
Pow10(k) == IF k = 0 THEN 1 ELSE 10 * Pow10(k - 1)

\* k decimal digits of rem/d by long division: <<digits as a number, remainder>>
RECURSIVE Digits(_, _, _)
Digits(rem, d, k) ==
    IF k = 0 THEN <<0, rem>>
    ELSE LET rest == Digits((rem * 10) % d, d, k - 1)
         IN  <<((rem * 10) \div d) * Pow10(k - 1) + rest[1], rest[2]>>

\* round half to even at the sixth decimal
Round6(x) ==
    LET a == Abs(x[1])
        f == Digits(a % x[2], x[2], 6)
        q == (a \div x[2]) * Pow10(6) + f[1]
        up == 2 * f[2] > x[2] \/ (2 * f[2] = x[2] /\ q % 2 = 1)
        r == IF up THEN q + 1 ELSE q
    IN  Norm(IF x[1] < 0 THEN -r ELSE r, Pow10(6))

-----------------------------------------------------------------------------
(* DryRunTrader.one_best_trade and PaperTrader.one_best_trade *)

\* what the advisor's recommendation parses to (_prepare_trade_data, _prepare_trade)
IntentSizes == {Zero, Rat(1, 20), Rat(5, 1)}
Intents == [side : Sides, price : config.quotes, size : IntentSizes]

\* random.uniform(-0.1, 0.1), random.uniform(-0.08, 0.08): the extreme draws
DryMoves == {Rat(-1, 10), Rat(1, 10)}
PaperMoves == {Rat(-2, 25), Rat(2, 25)}

\* trades a DryRunTrader makes in a run
MaxTrades == 2
\* trades a PaperTrader makes in a run
MaxPaperTrades == 1

\* a clamp that ignores max_position_size
SizeClampedToOne(size, max_position_size) == RMax(Zero, RMin(size, One))

\* max_size = max(0.0, min(max_size, 1.0)); clamped_size = max(0.0, min(size_val, max_size))
DryClampedSize(size, max_position_size) ==
    RMax(Zero, RMin(size, RMax(Zero, RMin(max_position_size, One))))

\* _simulate_trade_execution: pnl = size * get_available_balance() * price_change
DryPnl(size, price_change) == RMul(RMul(size, config.initial_balance), price_change)

\* _update_trading_stats, _update_stats
Counted(st, pnl) ==
    [st EXCEPT !.total_trades = @ + 1, !.total_pnl = RAdd(@, pnl)]

\* should_stop_trading(daily_stats): True ("stop"), False ("go"), or the
\* TypeError of dividing the float abs(min(daily_pnl, 0)) by the Decimal
\* available balance ("raise"); min(daily_pnl, 0) is the int 0, which divides,
\* only when daily_pnl > 0
ShouldStopTrading(st) ==
    IF st.total_trades >= config.max_daily_trades THEN "stop"
    ELSE IF RLt(Zero, config.initial_balance)
         THEN IF RLe(st.total_pnl, Zero) THEN "raise"
              ELSE IF RLe(config.max_daily_loss, Zero) THEN "stop" ELSE "go"
         ELSE "go"

DryRunOneBestTrade == \E intent \in Intents, price_change \in DryMoves :
    LET i == "dry"
        p == StoragePath(i)
        \* pre_trade_logic: a True verdict is logged and alerted, then it returns
        verdict == ShouldStopTrading(stats[i])
        trade == [intent EXCEPT !.size = DryClampedSize(intent.size, config.max_position_size)]
    IN  /\ Idle(i) /\ stats[i].total_trades < MaxTrades
        /\ IF verdict = "raise"
           THEN \* except Exception: the call ends with a risk alert
                /\ hist' = [hist EXCEPT ![i] = HLimit(@, verdict)]
                /\ UNCHANGED <<now, pm, file, stats, calls>>
           ELSE /\ pm' = [pm EXCEPT ![i] = Applied(pm[i], trade, now)]
                /\ file' = [file EXCEPT ![p] = Persisted(@, pm'[i], now, Opens(trade))]
                /\ now' = IF Opens(trade) THEN now + 1 ELSE now
                /\ hist' = [hist EXCEPT ![i] =
                              HApply(HIntent(HLimit(@, verdict), intent.size),
                                     pm[i], file[p], trade, now, "DryRunTrader")]
                /\ stats' = [stats EXCEPT ![i] = Counted(@, DryPnl(trade.size, price_change))]
                /\ calls' = calls + 1
        /\ UNCHANGED <<config, pc, io>>

\* max_size = max(0.0, min(float(max_position_size), 1.0)); trade["size"] = max(0.0, min(size, max_size))
PaperClampedSize(size, max_position_size) ==
    RMax(Zero, RMin(size, RMax(Zero, RMin(max_position_size, One))))

Bps(x) == RMul(x, Rat(1, 10000))
PriceFloor == Rat(1, 100)
PriceCap == Rat(99, 100)

\* the zero-effect return of _execute_trade
PaperRejects(trade) ==
    \/ RLe(trade.size, Zero)
    \/ RLe(trade.notional, Zero)
    \/ trade.side \notin {"BUY", "SELL"}

\* exec_price: slippage against the quoted price
ExecPrice(side, base_price, slippage_bps) ==
    IF side = "BUY" THEN RMin(PriceCap, RAdd(base_price, Bps(slippage_bps)))
    ELSE RMax(PriceFloor, RSub(base_price, Bps(slippage_bps)))

\* exit_price: the pseudo mark-to-market exit around exec_price
PaperExitPrice(side, exec_price, price_change) ==
    RMax(PriceFloor, RMin(PriceCap,
        IF side = "BUY" THEN RAdd(exec_price, price_change)
        ELSE RSub(exec_price, price_change)))

\* exec_notional = notional * fill_fraction
ExecNotional(notional, fill_fraction) == RMul(notional, fill_fraction)

\* pnl = exec_notional * change - fee
PaperPnl(trade, exec_price, exit_price, fill_fraction) ==
    LET exec_notional == ExecNotional(trade.notional, fill_fraction)
        fee == RMul(exec_notional, Bps(config.commission_bps))
    IN  RSub(RMul(exec_notional, Change(trade.side, exec_price, exit_price)), fee)

\* the intended size, whatever the fill
IntendedSize(size, fill_fraction) == size

\* apply_trade["size"] = size * fill_fraction
FilledSize(size, fill_fraction) == RMul(size, fill_fraction)

\* random.uniform(self.min_fill, self.max_fill): the extreme draws
Fills == {config.min_fill, config.max_fill}

PaperOneBestTrade == \E intent \in Intents, fill_fraction \in Fills, price_change \in PaperMoves :
    LET i == "paper"
        p == StoragePath(i)
        m == pm[i]
        size == PaperClampedSize(intent.size, config.max_position_size)
        trade == [side |-> intent.side, price |-> intent.price, size |-> size,
                  notional |-> Round6(RMul(m.current_balance, size))]
        exec_price == ExecPrice(trade.side, trade.price, config.slippage_bps)
        exit_price == PaperExitPrice(trade.side, exec_price, price_change)
        apply_trade == [side |-> trade.side, price |-> exec_price,
                        size |-> FilledSize(size, fill_fraction)]
        m1 == Applied(m, apply_trade, now)
        doc1 == Persisted(file[p], m1, now, Opens(apply_trade))
        h1 == HApply(HExec(HFill(HQuoted(HIntent(hist[i], intent.size), trade.price),
                                 fill_fraction),
                           trade.notional, ExecNotional(trade.notional, fill_fraction)),
                     m, file[p], apply_trade, now, "PaperTrader")
        \* last_pos = self.portfolio.positions[-1] if self.portfolio.positions else None
        closes == m1.positions # <<>>
        last_id == m1.positions[Len(m1.positions)].id
    IN  /\ Idle(i) /\ stats[i].total_trades < MaxPaperTrades
        /\ IF PaperRejects(trade)
           THEN /\ stats' = [stats EXCEPT ![i] = Counted(@, Zero)]
                /\ hist' = [hist EXCEPT ![i] =
                              HReject(HIntent(@, intent.size), m, file[p], trade)]
                /\ UNCHANGED <<now, pm, file, calls>>
           ELSE /\ pm' = [pm EXCEPT ![i] = IF closes THEN Closed(m1, last_id, exit_price) ELSE m1]
                /\ file' = [file EXCEPT ![p] = Persisted(doc1, pm'[i], now, closes)]
                /\ hist' = [hist EXCEPT ![i] =
                              HPnl(IF closes
                                   THEN HClose(h1, m1, doc1, last_id, exit_price, "PaperTrader")
                                   ELSE h1,
                                   PaperPnl(trade, exec_price, exit_price, fill_fraction))]
                /\ now' = IF Opens(apply_trade) THEN now + 1 ELSE now
                /\ calls' = calls + (IF closes THEN 2 ELSE 1)
                /\ stats' = [stats EXCEPT ![i] =
                               Counted(@, PaperPnl(trade, exec_price, exit_price, fill_fraction))]
        /\ UNCHANGED <<config, pc, io>>

MaxPositionSizes == {Rat(1, 10), One}

\* MAX_DAILY_TRADES: the default, under which should_stop_trading raises on a
\* fresh DryRunTrader, and 0, under which it answers before it divides
DailyTradeLimits == {0, 10}

\* a DryRunTrader or a PaperTrader, constructed on a path that holds no document
InitTrade ==
    /\ InitEnv
    /\ config \in {[DefaultConfig EXCEPT !.max_position_size = s, !.max_daily_trades = n] :
                      s \in MaxPositionSizes, n \in DailyTradeLimits}
    /\ file = [p \in Paths |-> AbsentDoc]
    /\ \E trader \in {"dry", "paper"} :
          pm = [i \in Insts |->
                  IF i = trader THEN Constructed(config.initial_balance, AbsentDoc)
                  ELSE NoInstance]
    /\ hist = [i \in Insts |-> NoHistory(config.initial_balance, pm[i], AbsentDoc)]

NextTrade == DryRunOneBestTrade \/ PaperOneBestTrade \/ Sleep

SpecTrade == InitTrade /\ [][NextTrade]_vars

-----------------------------------------------------------------------------
(* DryRunTrader.maintain_positions: the take-profit / stop-loss tick *)

\* random.uniform(-0.08, 0.08): a draw beyond the stop-loss distance on each side
TickMoves == {Rat(-3, 50), Rat(2, 25)}

\* current = max(0.01, min(0.99, entry + random.uniform(-0.08, 0.08)))
Observed(entry, move) == RMax(PriceFloor, RMin(PriceCap, RAdd(entry, move)))

\* change >= tp or change <= -sl
Triggers(pos, current) ==
    LET change == Change(pos.side, pos.entry_price, current)
    IN  RLe(config.take_profit, change) \/ RLe(change, RNeg(config.stop_loss))

\* the loop over the snapshot from position k on; acc holds the ledger, its
\* history, the document and what was observed and decided for each position
RECURSIVE Ticked(_, _, _, _, _)
Ticked(acc, snapshot, moves, k, t) ==
    IF k > Len(snapshot) THEN acc
    ELSE LET pos == snapshot[k]
             current == Observed(pos.entry_price, moves[k])
             fires == Triggers(pos, current)
             ret == IF fires THEN CloseResult(acc.m, pos.id, current) ELSE NoResult
             seen == [pos |-> pos, current |-> current, fires |-> fires, ret |-> ret,
                      removed |-> IF ret.found THEN acc.m.positions[FirstMatch(acc.m, pos.id)]
                                  ELSE NoPosition]
             m2 == Closed(acc.m, pos.id, current)
         IN  Ticked(IF fires
                    THEN [m |-> m2,
                          h |-> HClose(acc.h, acc.m, acc.doc, pos.id, current, "DryRunTrader"),
                          doc |-> Persisted(acc.doc, m2, t, ret.found),
                          tick |-> Append(acc.tick, seen)]
                    ELSE [acc EXCEPT !.tick = Append(@, seen)],
                    snapshot, moves, k + 1, t)

MaintainPositions == \E moves \in [1..Len(pm["dry"].positions) -> TickMoves] :
    LET i == "dry"
        p == StoragePath(i)
        \* positions = self.portfolio.get_positions()
        snapshot == pm[i].positions
        done == Ticked([m |-> pm[i], h |-> hist[i], doc |-> file[p], tick |-> <<>>],
                       snapshot, moves, 1, now)
    IN  /\ Idle(i)
        /\ pm' = [pm EXCEPT ![i] = done.m]
        /\ file' = [file EXCEPT ![p] = done.doc]
        /\ hist' = [hist EXCEPT ![i] =
                      [done.h EXCEPT !.op = "maintain_positions", !.via = "DryRunTrader",
                                     !.pre = pm[i], !.pre_doc = file[p], !.tick = done.tick]]
        /\ UNCHANGED <<now, config, pc, stats, calls, io>>

TakeProfits == {Rat(3, 20), Rat(3, 50)}

\* a quote inside the probability range and one at its edge
TickQuotes == {Rat(2, 5), Rat(199, 200)}

\* a DryRunTrader or a PaperTrader, with the thresholds and quotes of its run
InitTick ==
    /\ InitEnv
    /\ config \in {[DefaultConfig EXCEPT !.take_profit = tp, !.quotes = TickQuotes,
                                         !.max_daily_trades = 0] :
                      tp \in TakeProfits}
    /\ file = [p \in Paths |-> AbsentDoc]
    /\ \E trader \in {"dry", "paper"} :
          pm = [i \in Insts |->
                  IF i = trader THEN Constructed(config.initial_balance, AbsentDoc)
                  ELSE NoInstance]
    /\ hist = [i \in Insts |-> NoHistory(config.initial_balance, pm[i], AbsentDoc)]

NextTick == DryRunOneBestTrade \/ MaintainPositions \/ PaperOneBestTrade \/ Sleep

SpecTick == InitTick /\ [][NextTick]_vars

-----------------------------------------------------------------------------
(* Documents a save can leave behind, and a document of an earlier run *)

\* open(path, "w") has truncated the file and nothing has been written yet
EmptyDoc ==
    [kind |-> "empty", current_balance |-> Zero, positions |-> <<>>, last_updated |-> 0]

\* json.dump has written only the first part of the document
PartialDoc ==
    [kind |-> "partial", current_balance |-> Zero, positions |-> <<>>, last_updated |-> 0]

\* a shorter document written from offset 0 over a longer one
GarbledDoc ==
    [kind |-> "garbled", current_balance |-> Zero, positions |-> <<>>, last_updated |-> 0]

\* valid JSON whose current_balance is a number and whose positions is null
BadPosDoc(balance) ==
    [kind |-> "badpos", current_balance |-> balance, positions |-> <<>>, last_updated |-> 0]

\* an earlier run opened one position, one second before this run's clock starts
SeedTrade == [side |-> "BUY", price |-> Rat(2, 5), size |-> Rat(1, 10)]
SeedTime == -TicksPerSec
SeedDoc == SavedDoc(Applied(Fresh(Rat(DefaultBalance, 1)), SeedTrade, SeedTime), SeedTime)

\* ids a caller may pass to close_position when the document may hold SeedDoc
KnownIds == {PosId(SeedTime)} \cup IssuedIds

\* the observable state of a ledger: get_balance(), get_positions()
Ledger(m) == <<m.current_balance, m.positions>>

-----------------------------------------------------------------------------
(* History of one instance's loads, mutations and saves *)

\* h after PortfolioManager(...) read `doc` in load()
HLoad(h, m, doc) ==
    [h EXCEPT !.op = "load", !.id = 0, !.ret = NoResult, !.via = "api",
              !.pre = m, !.pre_doc = doc, !.prev_op = h.op, !.prev_id = h.id]

IoLoad(r, doc) == [r EXCEPT !.loaded_doc = doc, !.raised = FALSE]

IoApply(r, m, trade, t) ==
    [r EXCEPT !.raised = FALSE, !.crashed = FALSE,
              !.opened_all = IF Opens(trade) THEN @ \cup {NewPosition(m, trade, t)} ELSE @,
              !.delta = RAdd(@, RSub(Applied(m, trade, t).current_balance, m.current_balance)),
              !.mutations = IF Opens(trade) THEN @ + 1 ELSE @]

IoClose(r, m, id, exit_price) ==
    LET found == Matches(m, id) # {}
    IN  [r EXCEPT !.raised = FALSE, !.crashed = FALSE,
                  !.closed_all = IF found THEN @ \cup {m.positions[FirstMatch(m, id)]} ELSE @,
                  !.delta = RAdd(@, RSub(Closed(m, id, exit_price).current_balance,
                                         m.current_balance)),
                  !.mutations = IF found THEN @ + 1 ELSE @]

\* r after a save() of m over `doc` ended with `outcome`
IoSave(r, doc, m, t, outcome) ==
    [r EXCEPT !.raised = outcome \in {"open_error", "write_error"},
              !.crashed = outcome = "crash",
              !.crash_pre = IF outcome = "crash" THEN doc ELSE @,
              !.crash_post = IF outcome = "crash" THEN SavedDoc(m, t) ELSE @]

-----------------------------------------------------------------------------
(* One process whose saves can fail or be cut short, restarted after a crash *)

MaxIoCalls == 2

\* how save() ends: it returns; open(path, "w") raises and the file is untouched;
\* json.dump raises after the truncation; the process dies after the truncation
SaveOutcomes == {"ok", "open_error", "write_error", "crash"}

\* what the file holds when save() stops after the truncation
Leftovers == {EmptyDoc, PartialDoc}

\* the document after save() of m over `doc`
Written(doc, m, t, outcome, leftover) ==
    CASE outcome = "ok" -> SavedDoc(m, t)
      [] outcome = "open_error" -> doc
      [] OTHER -> leftover

\* the instance after save(): a crash ends the process, an exception does not
Survives(m, outcome) == IF outcome = "crash" THEN NoInstance ELSE m

\* documents the path can hold when the process starts
InitialDocs == {AbsentDoc, EmptyDoc, BadPosDoc(Rat(50, 1)), SeedDoc}

\* PortfolioManager(): __init__ and load(), with the save() of its except branch
StartIO ==
    LET i == "dry"
        p == StoragePath(i)
    IN  /\ ~pm[i].alive
        /\ pm' = [pm EXCEPT ![i] = Constructed(config.initial_balance, file[p])]
        /\ file' = [file EXCEPT ![p] = Persisted(@, pm'[i], now, LoadSaves(@))]
        /\ hist' = [hist EXCEPT ![i] = HLoad(@, Fresh(config.initial_balance), file[p])]
        /\ io' = [io EXCEPT ![i] = IoLoad(@, file[p])]
        /\ UNCHANGED <<now, config, pc, stats, calls>>

\* apply_trade(trade): the in-memory debit and append, then save() with its outcome
ApplyTradeIO == \E trade \in Trades, outcome \in SaveOutcomes, leftover \in Leftovers :
    LET i == "dry"
        p == StoragePath(i)
        m == Applied(pm[i], trade, now)
    IN  /\ Idle(i) /\ calls < MaxIoCalls
        /\ Opens(trade) \/ outcome = "ok"
        /\ pm' = [pm EXCEPT ![i] = Survives(m, outcome)]
        /\ file' = [file EXCEPT ![p] =
                      IF Opens(trade) THEN Written(@, m, now, outcome, leftover) ELSE @]
        /\ now' = IF Opens(trade) THEN now + 1 ELSE now
        /\ hist' = [hist EXCEPT ![i] = HApply(@, pm[i], file[p], trade, now, "api")]
        /\ io' = [io EXCEPT ![i] =
                    IoSave(IoApply(@, pm[i], trade, now), file[p], m, now, outcome)]
        /\ calls' = calls + 1
        /\ UNCHANGED <<config, pc, stats>>

\* close_position(id, exit_price): the in-memory credit and delete, then save()
ClosePositionIO == \E id \in KnownIds, exit_price \in Prices,
                      outcome \in SaveOutcomes, leftover \in Leftovers :
    LET i == "dry"
        p == StoragePath(i)
        m == Closed(pm[i], id, exit_price)
        found == Matches(pm[i], id) # {}
    IN  /\ Idle(i) /\ calls < MaxIoCalls
        /\ found \/ outcome = "ok"
        /\ pm' = [pm EXCEPT ![i] = Survives(m, outcome)]
        /\ file' = [file EXCEPT ![p] =
                      IF found THEN Written(@, m, now, outcome, leftover) ELSE @]
        /\ hist' = [hist EXCEPT ![i] = HClose(@, pm[i], file[p], id, exit_price, "api")]
        /\ io' = [io EXCEPT ![i] =
                    IoSave(IoClose(@, pm[i], id, exit_price), file[p], m, now, outcome)]
        /\ calls' = calls + 1
        /\ UNCHANGED <<now, config, pc, stats>>

\* h after the server answered GET /portfolio from the document `doc`
HQuery(h, m, doc) == [HLoad(h, m, doc) EXCEPT !.op = "GET /portfolio"]

\* GET /portfolio in the server process: pm = PortfolioManager(), with the
\* save() of load()'s except branch, then get_balance() and get_positions();
\* the instance is dropped when the handler returns
GetPortfolio ==
    LET i == "other"
        p == StoragePath(i)
        m == Constructed(Rat(DefaultBalance, 1), file[p])
    IN  /\ calls < MaxIoCalls
        /\ file' = [file EXCEPT ![p] = Persisted(@, m, now, LoadSaves(@))]
        /\ hist' = [hist EXCEPT ![i] = HQuery(@, Fresh(Rat(DefaultBalance, 1)), file[p])]
        /\ io' = [io EXCEPT ![i] = IoLoad(@, file[p])]
        /\ calls' = calls + 1
        /\ UNCHANGED <<now, config, pm, pc, stats>>

InitIO ==
    /\ InitEnv
    /\ config = DefaultConfig
    /\ \E doc \in InitialDocs :
           file = [p \in Paths |-> IF p = StoragePath("dry") THEN doc ELSE AbsentDoc]
    /\ pm = [i \in Insts |-> NoInstance]
    /\ hist = [i \in Insts |-> NoHistory(config.initial_balance, NoInstance, AbsentDoc)]

NextIO == StartIO \/ ApplyTradeIO \/ ClosePositionIO \/ GetPortfolio

SpecIO == InitIO /\ [][NextIO]_vars

-----------------------------------------------------------------------------
(* Two processes on the same path, interleaved at each access to the file *)

\* pc: "idle" between calls; "open" when save() is about to open(path, "w");
\* "write" once the file is truncated; "part" once json.dump has flushed a part

MaxSharedCalls == 2

\* the trades either process may be asked to apply
SharedTrades == [side : Sides, price : {Rat(3, 5)}, size : {Zero, Rat(1, 10)}]

Sharers == {"dry", "other"}
SharedPath == StoragePath("dry")

\* a write from offset 0 over what the file holds: the tail of a longer document
\* written since this writer's truncation stays in the file
Overwrite(doc, new) ==
    IF doc.kind = "valid" /\ Len(doc.positions) > Len(new.positions) THEN GarbledDoc ELSE new

\* PortfolioManager(): __init__ and load(), up to the save() of its except branch
Start(i) ==
    /\ ~pm[i].alive
    /\ pm' = [pm EXCEPT ![i] = Constructed(config.initial_balance, file[SharedPath])]
    /\ pc' = [pc EXCEPT ![i] = IF LoadSaves(file[SharedPath]) THEN "open" ELSE "idle"]
    /\ hist' = [hist EXCEPT ![i] = HLoad(@, Fresh(config.initial_balance), file[SharedPath])]
    /\ io' = [io EXCEPT ![i] = IoLoad(@, file[SharedPath])]
    /\ UNCHANGED <<now, config, file, stats, calls>>

\* apply_trade(trade) up to its call of save()
BeginApply(i) == \E trade \in SharedTrades :
    /\ Idle(i) /\ calls < MaxSharedCalls
    /\ pm' = [pm EXCEPT ![i] = Applied(pm[i], trade, now)]
    /\ pc' = [pc EXCEPT ![i] = IF Opens(trade) THEN "open" ELSE "idle"]
    /\ now' = IF Opens(trade) THEN now + 1 ELSE now
    /\ hist' = [hist EXCEPT ![i] = HApply(@, pm[i], file[SharedPath], trade, now, "api")]
    /\ io' = [io EXCEPT ![i] = IoApply(@, pm[i], trade, now)]
    /\ calls' = calls + 1
    /\ UNCHANGED <<config, file, stats>>

\* close_position(id, exit_price) up to its call of save()
BeginClose(i) == \E id \in KnownIds, exit_price \in Prices :
    /\ Idle(i) /\ calls < MaxSharedCalls
    /\ pm' = [pm EXCEPT ![i] = Closed(pm[i], id, exit_price)]
    /\ pc' = [pc EXCEPT ![i] = IF Matches(pm[i], id) # {} THEN "open" ELSE "idle"]
    /\ hist' = [hist EXCEPT ![i] = HClose(@, pm[i], file[SharedPath], id, exit_price, "api")]
    /\ io' = [io EXCEPT ![i] = IoClose(@, pm[i], id, exit_price)]
    /\ calls' = calls + 1
    /\ UNCHANGED <<now, config, file, stats>>

\* save(): open(path, "w") truncates the file
SaveOpen(i) ==
    /\ pm[i].alive /\ pc[i] = "open"
    /\ file' = [file EXCEPT ![SharedPath] = EmptyDoc]
    /\ pc' = [pc EXCEPT ![i] = "write"]
    /\ UNCHANGED <<now, config, pm, stats, calls, hist, io>>

\* save(): json.dump's output reaches the file in more than one write
SaveWritePart(i) ==
    /\ pm[i].alive /\ pc[i] = "write"
    /\ file' = [file EXCEPT ![SharedPath] = Overwrite(@, PartialDoc)]
    /\ pc' = [pc EXCEPT ![i] = "part"]
    /\ UNCHANGED <<now, config, pm, stats, calls, hist, io>>

\* save(): the whole document is in the file and the file is closed
SaveWrite(i) ==
    /\ pm[i].alive /\ pc[i] \in {"write", "part"}
    /\ file' = [file EXCEPT ![SharedPath] = Overwrite(@, SavedDoc(pm[i], now))]
    /\ pc' = [pc EXCEPT ![i] = "idle"]
    /\ io' = [io EXCEPT ![i].closed_persisted =
                IF file'[SharedPath].kind = "valid" THEN io[i].closed_all ELSE @]
    /\ UNCHANGED <<now, config, pm, stats, calls, hist>>

\* h after a /portfolio or /positions command was answered from m: get_balance()
\* and mark_to_market() for the one, get_positions() for the other
HReply(h, m) ==
    [h EXCEPT !.op = "reply", !.id = 0, !.ret = NoResult, !.via = "telegram_bot_poll",
              !.pre = m, !.prev_op = h.op, !.prev_id = h.id,
              !.mtm = Summary(m, NoPrice)]

\* the poller answers /portfolio or /positions from the PortfolioManager it
\* constructed when it started
PollerQuery(i) ==
    /\ pm[i].alive /\ pc[i] = "idle"
    /\ hist' = [hist EXCEPT ![i] = HReply(@, pm[i])]
    /\ UNCHANGED <<now, config, file, pm, pc, stats, calls, io>>

InitShared ==
    /\ InitEnv
    /\ config = DefaultConfig
    /\ \E doc \in {AbsentDoc, SeedDoc} :
           file = [p \in Paths |-> IF p = SharedPath THEN doc ELSE AbsentDoc]
    /\ pm = [i \in Insts |-> NoInstance]
    /\ hist = [i \in Insts |-> NoHistory(config.initial_balance, NoInstance, AbsentDoc)]

NextShared == \E i \in Sharers :
    \/ Start(i)
    \/ BeginApply(i)
    \/ BeginClose(i)
    \/ SaveOpen(i)
    \/ SaveWritePart(i)
    \/ SaveWrite(i)
    \/ PollerQuery(i)

SpecShared == InitShared /\ [][NextShared]_vars

-----------------------------------------------------------------------------
(* Claims about one PortfolioManager *)

Notionals(m) == [k \in 1..Len(m.positions) |-> m.positions[k].notional]

\* C1: Conservation. At every point between operations of one PortfolioManager,
\* current_balance plus the notional of the positions in the ledger equals the
\* initial balance plus the realized_pnl of all close results returned so far.
C1_Conservation ==
    RAdd(pm["dry"].current_balance, SumSeq(Notionals(pm["dry"])))
        = RAdd(hist["dry"].initial, hist["dry"].realized)

\* a close has returned a non-zero PnL while another position is still open
C1_Witness ==
    /\ hist["dry"].realized # Zero
    /\ pm["dry"].positions # <<>>
    /\ hist["dry"].op = "close_position"

\* C3: Idempotent close. Of two close_position calls made in succession with the
\* same id, the second returns None and leaves balance, positions and the persisted
\* document unchanged.
C3_IdempotentClose ==
    LET h == hist["dry"]
    IN  (h.op = "close_position" /\ h.prev_op = "close_position" /\ h.prev_id = h.id)
            => /\ ~h.ret.found
               /\ pm["dry"] = h.pre
               /\ file[StoragePath("dry")] = h.pre_doc

Ids(positions) == {positions[k].id : k \in 1..Len(positions)}

\* C4: Position ids are unique and never reused. No two positions in the ledger
\* share an id, and no position in the ledger carries the id of a closed position.
C4_UniqueIds ==
    LET m == pm["dry"]
    IN  /\ \A j, k \in 1..Len(m.positions) :
              m.positions[j].id = m.positions[k].id => j = k
        /\ Ids(m.positions) \cap hist["dry"].closed_ids = {}

-----------------------------------------------------------------------------
(* Claims about the traders *)

Traders == {"DryRunTrader", "PaperTrader"}

\* C10: Clamping. Every position opened through DryRunTrader.one_best_trade or
\* PaperTrader.one_best_trade has notional at most max_position_size times the
\* balance at open time, whatever size_fraction the caller supplied.
C10_Clamping ==
    \A i \in {"dry", "paper"} :
        (hist[i].via \in Traders /\ hist[i].opened # NoPosition)
            => RLe(hist[i].opened.notional,
                   RMul(config.max_position_size, hist[i].opened_balance))

\* a trader has opened a position from an intent of 5.0 under a cap of 0.1,
\* after an earlier open had lowered its balance
C10_Witness ==
    /\ config.max_position_size = Rat(1, 10)
    /\ hist["dry"].via = "DryRunTrader"
    /\ hist["dry"].asked = Rat(5, 1)
    /\ hist["dry"].opened # NoPosition
    /\ RLt(Zero, hist["dry"].opened.notional)
    /\ RLt(hist["dry"].opened_balance, config.initial_balance)

-----------------------------------------------------------------------------
(* Claims about saves that fail and loads that recover *)

\* C7: Crash safety. If the process crashes during save(), the next load() on
\* that path recovers the ledger state before that save or the state after it,
\* whenever a valid ledger had been persisted before the save.
C7_CrashSafety ==
    LET i == "dry"
    IN  (hist[i].op = "load" /\ io[i].crashed /\ io[i].crash_pre.kind = "valid")
            => Ledger(pm[i]) \in {<<io[i].crash_pre.current_balance, io[i].crash_pre.positions>>,
                                  <<io[i].crash_post.current_balance, io[i].crash_post.positions>>}

\* C8: Failed write is not applied. If save() raises during apply_trade or
\* close_position, get_balance() and get_positions() equal what they were
\* before the operation began.
C8_FailedWriteNotApplied ==
    LET i == "dry"
    IN  (io[i].raised /\ pm[i].alive) => Ledger(pm[i]) = Ledger(hist[i].pre)

\* C9: Load recovery. After load() finds the document absent or malformed, the
\* in-memory ledger has the configured initial balance and no positions, and the
\* persisted document exists and holds exactly that state.
C9_LoadRecovery ==
    LET i == "dry"
        doc == file[StoragePath(i)]
    IN  (hist[i].op = "load" /\ io[i].loaded_doc.kind # "valid")
            => /\ Ledger(pm[i]) = <<config.initial_balance, <<>>>>
               /\ doc.kind = "valid"
               /\ <<doc.current_balance, doc.positions>> = <<config.initial_balance, <<>>>>

-----------------------------------------------------------------------------
(* Claims about instances that share a document *)

Range(s) == {s[k] : k \in 1..Len(s)}

\* C2: No lost update. When two instances on the same path have each loaded
\* the same document, applied one mutation and saved, the persisted document
\* holds both balance changes and both changes of the position sequence.
C2_NoLostUpdate ==
    LET a == io["dry"]
        b == io["other"]
        doc == file[SharedPath]
        base == Constructed(config.initial_balance, a.loaded_doc)
    IN  (/\ Idle("dry") /\ Idle("other")
         /\ a.loaded_doc = b.loaded_doc /\ ~LoadSaves(a.loaded_doc)
         /\ a.mutations = 1 /\ b.mutations = 1)
            => /\ doc.kind = "valid"
               /\ doc.current_balance = RAdd(base.current_balance, RAdd(a.delta, b.delta))
               /\ Range(doc.positions) =
                      (Range(base.positions) \cup a.opened_all \cup b.opened_all)
                          \ (a.closed_all \cup b.closed_all)

\* C5: CLOSED is terminal. Once a save has persisted the removal of a position,
\* that position is never again in the persisted position sequence.
C5_ClosedIsTerminal ==
    \A i \in Sharers :
        Range(file[SharedPath].positions) \cap io[i].closed_persisted = {}

\* C6: Atomic save. A load() that interleaves with another instance's save()
\* reads a complete document (or finds none); it never reads an empty or a
\* partly written one.
C6_AtomicSave ==
    \A i \in Sharers :
        hist[i].op = "load" => io[i].loaded_doc.kind \in {"absent", "valid"}

-----------------------------------------------------------------------------
(* Claims about the traders' prices and ticks *)

InBounds(price) == RLe(PriceFloor, price) /\ RLe(price, PriceCap)

\* C11: Price bounds. The entry_price of every position put into the ledger and
\* the exit_price of every close result lie in [0.01, 0.99], whatever price the
\* intent quotes and whatever the simulated move is.
C11_PriceBounds ==
    \A i \in {"dry", "paper"} :
        /\ \A k \in 1..Len(pm[i].positions) : InBounds(pm[i].positions[k].entry_price)
        /\ hist[i].opened # NoPosition => InBounds(hist[i].opened.entry_price)
        /\ hist[i].ret.found => InBounds(hist[i].ret.exit_price)

-----------------------------------------------------------------------------
(* Claims about single calls of the ledger *)

\* the position of the round trip example, whenever and under whatever id it was opened
IsExamplePosition(pos) ==
    /\ pos.side = "BUY" /\ pos.entry_price = Rat(2, 5)
    /\ pos.size_fraction = Rat(1, 5) /\ pos.notional = Rat(20, 1)

\* what the two calls of the round trip example leave when the close ends
\* with `final_balance`
RoundTrip(final_balance) ==
    LET h == hist["dry"]
        m == pm["dry"]
    IN  /\ (/\ h.op = "apply_trade"
            /\ Ledger(h.pre) = <<Rat(100, 1), <<>>>>
            /\ h.arg = [side |-> "BUY", price |-> Rat(2, 5), size |-> Rat(1, 5)])
               => /\ m.current_balance = Rat(80, 1)
                  /\ Len(m.positions) = 1
                  /\ IsExamplePosition(m.positions[1])
        /\ (/\ h.op = "close_position"
            /\ h.pre.current_balance = Rat(80, 1)
            /\ Len(h.pre.positions) = 1
            /\ IsExamplePosition(h.pre.positions[1])
            /\ h.id = h.pre.positions[1].id
            /\ h.ret.exit_price = Rat(3, 5))
               => /\ h.ret.found
                  /\ h.ret.realized_pnl = Rat(4, 1)
                  /\ Ledger(m) = <<final_balance, <<>>>>

\* C12 as stated: Round trip. From balance 100 with no positions, apply_trade of
\* (BUY, price 0.40, size 0.2) yields one position with notional 20 and
\* entry_price 0.40 and balance 80; closing it at 0.60 yields realized_pnl 4,
\* balance 84 and no open positions.
C12_RoundTripAsStated == RoundTrip(Rat(84, 1))

\* C12 amended: Round trip. As above, but the close returns the notional as
\* well as the realized PnL, so the balance after the close is 80 + 20 + 4 = 104.
C12_RoundTrip == RoundTrip(Rat(104, 1))

C12_Witness ==
    LET h == hist["dry"]
    IN  /\ h.op = "close_position" /\ h.prev_op = "apply_trade"
        /\ Ledger(h.pre) = <<Rat(80, 1), <<h.opened>>>>
        /\ IsExamplePosition(h.opened)
        /\ h.ret.found /\ h.ret.exit_price = Rat(3, 5)
        /\ Ledger(pm["dry"]) = <<Rat(104, 1), <<>>>>

\* C13: Tick trigger. During maintain_positions an open position is closed at
\* the observed price if and only if its directional change is at least the
\* take-profit threshold or at most minus the stop-loss threshold, and when it
\* is closed the realized_pnl is its notional times that change.
C13_TickTrigger ==
    LET h == hist["dry"]
    IN  h.op = "maintain_positions" =>
            \A k \in 1..Len(h.tick) :
                LET s == h.tick[k]
                    change == Change(s.pos.side, s.pos.entry_price, s.current)
                    due == RLe(config.take_profit, change) \/ RLe(change, RNeg(config.stop_loss))
                    gone == s.pos \notin Range(pm["dry"].positions)
                IN  /\ gone <=> due
                    /\ due => /\ s.ret.found
                              /\ s.removed = s.pos
                              /\ s.ret.exit_price = s.current
                              /\ s.ret.realized_pnl = RMul(s.pos.notional, change)

-----------------------------------------------------------------------------
(* Claims about PaperTrader's execution model *)

\* the balance a PaperTrader open with fill_fraction < 1 was debited by (the
\* notional recorded in the position is the amount apply_trade subtracts), and
\* the intended notional of that open
PartialFillDebit(of_intended) ==
    LET h == hist["paper"]
        intended == RMul(PaperClampedSize(h.asked, config.max_position_size), h.opened_balance)
    IN  (h.via = "PaperTrader" /\ h.opened # NoPosition /\ RLt(h.fill, One))
            => h.opened.notional = RMul(of_intended, intended)

\* C14 as stated: Intended notional is reserved. When PaperTrader opens a
\* position with fill_fraction f < 1, the amount debited from the balance is
\* the full intended notional (clamped size_fraction times the balance before
\* the open).
C14_IntendedReserved == PartialFillDebit(One)

\* C14 amended: Executed notional is debited. When PaperTrader opens a position
\* with fill_fraction f < 1, the amount debited from the balance is f times the
\* intended notional.
C14_ExecutedDebited == PartialFillDebit(hist["paper"].fill)

C14_Witness ==
    LET h == hist["paper"]
    IN  /\ h.via = "PaperTrader" /\ h.opened # NoPosition
        /\ h.fill = Rat(3, 5) /\ h.asked = Rat(5, 1)
        /\ h.opened.notional = RMul(Rat(3, 5), RMul(config.max_position_size, h.opened_balance))
        /\ RLt(Zero, h.opened.notional)

\* C15: Zero-effect fill. When the intent's side is neither BUY nor SELL or its
\* size_fraction is <= 0, PaperTrader._execute_trade and
\* PortfolioManager.apply_trade leave balance, position sequence and persisted
\* document unchanged, and the execution result reports pnl 0.
C15_ZeroEffect ==
    \A i \in {"dry", "paper"} :
        LET h == hist[i]
        IN  (/\ h.op \in {"apply_trade", "_execute_trade"}
             /\ h.arg.side \notin {"BUY", "SELL"} \/ RLe(h.arg.size, Zero))
                => /\ Ledger(pm[i]) = Ledger(h.pre)
                   /\ file[StoragePath(i)] = h.pre_doc
                   /\ h.via = "PaperTrader" => h.pnl = Zero

C15_Witness ==
    \/ /\ hist["paper"].op = "_execute_trade"
       /\ hist["paper"].arg.side = "UNKNOWN" /\ RLt(Zero, hist["paper"].arg.size)
       /\ stats["paper"].total_trades = 1
    \/ /\ hist["dry"].op = "apply_trade" /\ hist["dry"].via = "DryRunTrader"
       /\ hist["dry"].arg.side = "UNKNOWN" /\ RLt(Zero, hist["dry"].arg.size)
       /\ pm["dry"].positions # <<>>

-----------------------------------------------------------------------------
(* Claims about the positions apply_trade records *)

\* C16: No empty positions. An open whose notional is <= 0 is a no-op: no
\* position with notional <= 0 is in the ledger, and an open with a positive
\* size against a balance of 0 leaves the position sequence unchanged.
C16_NoEmptyPositions ==
    LET h == hist["dry"]
        m == pm["dry"]
    IN  /\ \A k \in 1..Len(m.positions) : RLt(Zero, m.positions[k].notional)
        /\ (/\ h.op = "apply_trade"
            /\ h.pre.current_balance = Zero
            /\ RLt(Zero, h.arg.size))
               => m.positions = h.pre.positions

\* C20: Position record consistency. Every position in the ledger has
\* size_fraction in (0, 1], and the notional of a position equals its recorded
\* size_fraction times the balance at the moment it was opened, whatever size
\* was passed to apply_trade.
C20_RecordConsistency ==
    LET h == hist["dry"]
        m == pm["dry"]
    IN  /\ \A k \in 1..Len(m.positions) :
               /\ RLt(Zero, m.positions[k].size_fraction)
               /\ RLe(m.positions[k].size_fraction, One)
        /\ (h.op = "apply_trade" /\ h.opened # NoPosition)
               => h.opened.notional = RMul(h.opened.size_fraction, h.opened_balance)

-----------------------------------------------------------------------------
(* Claims about queries *)

\* C17: mark_to_market is read-only. For every ledger state and every observed
\* price, none included, mark_to_market leaves balance, position sequence and
\* persisted document unchanged and reports as position count the number of
\* open positions.
C17_MarkToMarketReadOnly ==
    LET h == hist["dry"]
    IN  h.op = "mark_to_market"
            => /\ Ledger(pm["dry"]) = Ledger(h.pre)
               /\ file[StoragePath("dry")] = h.pre_doc
               /\ h.mtm.positions = Len(pm["dry"].positions)
               /\ h.mtm.balance = pm["dry"].current_balance

C17_Witness ==
    LET h == hist["dry"]
    IN  /\ h.op = "mark_to_market" /\ h.prev_op = "apply_trade"
        /\ Len(pm["dry"].positions) = 2 /\ h.mtm.positions = 2
        /\ h.mtm.unrealized_pnl # Zero

\* C18: Queries never write. Serving GET /portfolio, the construction of the
\* PortfolioManager it uses included, never changes the persisted ledger
\* document, whatever the document holds at that moment.
C18_QueriesNeverWrite == [][GetPortfolio => file' = file]_vars

\* C19: Concurrent double close. When two monitors, each with its own
\* PortfolioManager loaded from the same document, both attempt to close the
\* same position, at most one attempt returns a Closed-Position Record, and the
\* persisted balance is credited for that position exactly once.
C19_DoubleClose ==
    LET a == hist["dry"]
        b == hist["other"]
    IN  (/\ io["dry"].loaded_doc = io["other"].loaded_doc
         /\ a.op = "close_position" /\ b.op = "close_position" /\ a.id = b.id)
            => /\ ~(a.ret.found /\ b.ret.found)
               /\ io["dry"].closed_all \cap io["other"].closed_all = {}

\* the sequence s with its j-th element taken out and every other element kept
Without(s, j) == [n \in 1..(Len(s) - 1) |-> IF n < j THEN s[n] ELSE s[n + 1]]

\* the closes of one tick, from entry k on, account for every difference
\* between the ledger before and the ledger after
RECURSIVE ClosesOnly(_, _, _, _)
ClosesOnly(before, after, tick, k) ==
    IF k > Len(tick) THEN Ledger(before) = Ledger(after)
    ELSE IF ~tick[k].ret.found THEN ClosesOnly(before, after, tick, k + 1)
    ELSE \E j \in 1..Len(before.positions) :
            LET pos == before.positions[j]
                ret == tick[k].ret
            IN  /\ pos = tick[k].removed
                /\ ret.realized_pnl =
                      RMul(pos.notional, Change(pos.side, pos.entry_price, ret.exit_price))
                /\ ClosesOnly([before EXCEPT
                                 !.positions = Without(@, j),
                                 !.current_balance =
                                     RAdd(@, RAdd(pos.notional, ret.realized_pnl))],
                              after, tick, k + 1)

C22_AdverseSlippage ==
    LET h == hist["paper"]
    IN  (h.via = "PaperTrader" /\ h.op # "_execute_trade" /\ h.arg # NoTrade) =>
            /\ h.arg.side = "BUY" => RLe(h.quoted, h.arg.price)
            /\ h.arg.side = "SELL" => RLe(h.arg.price, h.quoted)

(***************************************************************************)
(* PaperTrader(min_fill, max_fill): the trader constructed with fill       *)
(* bounds below, inside and above the range, in either order.              *)
(***************************************************************************)
\* the min_fill and max_fill arguments passed to the constructor
FillArgs == {Rat(-1, 1), Rat(1, 20), Rat(3, 5), Rat(2, 1)}

InitFill ==
    /\ InitEnv
    /\ config \in {[DefaultConfig EXCEPT !.min_fill = MinFill(min_fill),
                                         !.max_fill = MaxFill(MinFill(min_fill), max_fill)] :
                      min_fill \in FillArgs, max_fill \in FillArgs}
    /\ file = [p \in Paths |-> AbsentDoc]
    /\ pm = [i \in Insts |->
               IF i = "paper" THEN Constructed(config.initial_balance, AbsentDoc)
               ELSE NoInstance]
    /\ hist = [i \in Insts |-> NoHistory(config.initial_balance, pm[i], AbsentDoc)]

NextFill == PaperOneBestTrade \/ Sleep

SpecFill == InitFill /\ [][NextFill]_vars

\* C23: fill bounds.  The normalised bounds satisfy
\* 0.1 <= min_fill <= max_fill <= 1 whatever was passed to the constructor,
\* and whenever the paper trader executed a trade the drawn fill_fraction lies
\* in [min_fill, max_fill], the executed notional is the intended notional
\* times fill_fraction, and it does not exceed the intended notional.
C23_FillBounds ==
    /\ RLe(Rat(1, 10), config.min_fill)
    /\ RLe(config.min_fill, config.max_fill)
    /\ RLe(config.max_fill, One)
    /\ LET h == hist["paper"]
       IN  (h.via = "PaperTrader" /\ h.op # "_execute_trade" /\ h.arg # NoTrade) =>
               /\ RLe(config.min_fill, h.fill) /\ RLe(h.fill, config.max_fill)
               /\ h.exec_notional = RMul(h.notional, h.fill)
               /\ RLe(h.exec_notional, h.notional)

\* a trader constructed with both bounds under 0.1 executed a trade at the
\* fill 0.1, for a tenth of the intended notional
C23_Witness ==
    LET h == hist["paper"]
    IN  /\ config.min_fill = Rat(1, 10) /\ config.max_fill = Rat(1, 10)
        /\ h.via = "PaperTrader" /\ h.op = "close_position"
        /\ h.fill = Rat(1, 10)
        /\ RLt(Zero, h.exec_notional) /\ RLt(h.exec_notional, h.notional)

(***************************************************************************)
(* A DryRunTrader under daily limits: MAX_DAILY_TRADES of 0, 1 or the      *)
(* default, with the configured available balance positive (dry_run mode)  *)
(* or zero (DRY_RUN_BALANCE=0, or a trading mode other than dry_run).      *)
(***************************************************************************)
LimitTrades == {0, 1, 10}
LimitBalances == {Zero, Rat(DefaultBalance, 1)}

InitLimit ==
    /\ InitEnv
    /\ config \in {[DefaultConfig EXCEPT !.initial_balance = b, !.max_daily_trades = n] :
                      b \in LimitBalances, n \in LimitTrades}
    /\ file = [p \in Paths |-> AbsentDoc]
    /\ pm = [i \in Insts |->
               IF i = "dry" THEN Constructed(config.initial_balance, AbsentDoc)
               ELSE NoInstance]
    /\ hist = [i \in Insts |-> NoHistory(config.initial_balance, pm[i], AbsentDoc)]

NextLimit == DryRunOneBestTrade \/ Sleep

SpecLimit == InitLimit /\ [][NextLimit]_vars

\* C24: daily limits stop trading.  A DryRunTrader.one_best_trade that starts
\* when should_stop_trading(daily_stats) is true opens no position, leaves the
\* balance as it is and does not increase total_trades.
C24_LimitsStopTrading ==
    [][(DryRunOneBestTrade /\ ShouldStopTrading(stats["dry"]) = "stop") =>
           /\ pm'["dry"].positions = pm["dry"].positions
           /\ pm'["dry"].current_balance = pm["dry"].current_balance
           /\ stats'["dry"].total_trades = stats["dry"].total_trades]_vars

\* what close_position(id, current_price) would return, asked on m for each
\* open position in turn, summed
ClosesSum(m, current_price) ==
    SumSeq([k \in 1..Len(m.positions) |->
               CloseResult(m, m.positions[k].id, current_price).realized_pnl])

\* C25: mark-to-market agrees with close.  Whenever mark_to_market(p) returned
\* a summary for an observed price p, its unrealized_pnl equals the sum, over
\* the open positions, of the realized_pnl that close_position(id, p) would
\* return for that position on the same ledger.
C25_MarkAgreesWithClose ==
    LET h == hist["dry"]
    IN  h.op = "mark_to_market" =>
            \A current_price \in Prices :
                h.mtm = Summary(pm["dry"], current_price) =>
                    h.mtm.unrealized_pnl = ClosesSum(pm["dry"], current_price)

\* the initial_balance arguments of the PortfolioManager constructed afterwards
InitialBalances == {Rat(50, 1), Rat(DefaultBalance, 1)}

C27_TickClosesEvaluated ==
    LET h == hist["dry"]
    IN  h.op = "maintain_positions" =>
            \A k \in 1..Len(h.tick) :
                LET seen == h.tick[k]
                    P == seen.pos
                IN  /\ (seen.fires /\ seen.ret.found) =>
                           /\ seen.removed = P
                           /\ seen.ret.realized_pnl =
                                 RMul(P.notional,
                                      Change(P.side, P.entry_price, seen.ret.exit_price))
                    /\ ~Triggers(P, seen.current) =>
                           \A j \in 1..Len(h.tick) :
                               h.tick[j].ret.found => h.tick[j].removed # P

\* C28: the reported pnl matches the ledger.  After every PaperTrader trade
\* that executed, the pnl of the execution result equals the balance after the
\* immediate close minus the balance before the open, and the ledger holds as
\* many open positions as before the trade.
C28_ReportedPnlMatchesLedger ==
    LET h == hist["paper"]
        m == pm["paper"]
    IN  (h.via = "PaperTrader" /\ h.op = "close_position" /\ h.opened # NoPosition) =>
            /\ h.pnl = RSub(m.current_balance, h.opened_balance)
            /\ Len(m.positions) + 1 = Len(h.pre.positions)

(***************************************************************************)
(* The ledger interface at the edges of the probability range: positions   *)
(* entered at the price 1 and closed at 0 or 1, where a BUY loses its      *)
(* whole notional and a SELL doubles it.                                   *)
(***************************************************************************)
EdgeEntries == {One}
EdgePrices == {Zero, One}

InitEdge ==
    /\ InitEnv
    /\ config = [DefaultConfig EXCEPT !.entries = EdgeEntries, !.quotes = EdgePrices]
    /\ file = [p \in Paths |-> AbsentDoc]
    /\ pm = [i \in Insts |->
               IF i = "dry" THEN Constructed(config.initial_balance, AbsentDoc)
               ELSE NoInstance]
    /\ hist = [i \in Insts |-> NoHistory(config.initial_balance, pm[i], AbsentDoc)]

SpecEdge == InitEdge /\ [][Next]_vars

\* C29: the balance stays non-negative.  From an initial balance >= 0, after
\* any sequence of apply_trade and close_position calls whose entry and exit
\* prices lie in [0, 1], current_balance is >= 0.
C29_BalanceNonNegative ==
    /\ \A price \in config.entries \cup config.quotes : RLe(Zero, price) /\ RLe(price, One)
    /\ RLe(Zero, pm["dry"].current_balance)

\* the whole balance went into a position that was closed at a total loss:
\* the balance is 0 and nothing is open
C29_Witness ==
    LET h == hist["dry"]
    IN  /\ h.op = "close_position" /\ h.ret.found
        /\ RLt(Zero, h.ret.notional)
        /\ h.ret.realized_pnl = RNeg(h.ret.notional)
        /\ pm["dry"].current_balance = Zero
        /\ pm["dry"].positions = <<>>

\* C30: queries see the persisted state.  When a trader t has mutated its
\* ledger and its save() has completed, so that the document holds t's
\* ledger, a /portfolio or /positions query answered by a poller i that was
\* constructed on the same document as t, and never mutated, returns the
\* document's balance and position sequence.
C30_QueriesSeePersisted ==
    [][\A i \in Sharers : \A t \in Sharers \ {i} :
          LET doc == file[SharedPath]
          IN  (/\ PollerQuery(i)
               /\ io[i].mutations = 0 /\ io[t].mutations > 0
               /\ io[i].loaded_doc = io[t].loaded_doc /\ ~LoadSaves(io[i].loaded_doc)
               /\ pm[t].alive /\ pc[t] = "idle"
               /\ doc.kind = "valid"
               /\ doc.current_balance = pm[t].current_balance
               /\ doc.positions = pm[t].positions) =>
                  /\ hist'[i].mtm.balance = doc.current_balance
                  /\ hist'[i].mtm.positions = Len(doc.positions)
                  /\ hist'[i].pre.positions = doc.positions]_vars

=============================================================================
